---- MODULE Spec2Model ----
(***************************************************************************)
(* Model of the processor resolver of transformers/models/auto/            *)
(* processing_auto.py: processor_class_from_name, AutoProcessor.register   *)
(* and AutoProcessor.from_pretrained.  One call of from_pretrained is      *)
(* followed statement by statement (pc), after any number of register      *)
(* calls (bounded by MaxRegistrations).  Everything the call reads from    *)
(* the outside (which files the repository holds, what they declare, what  *)
(* the collaborators answer) is chosen when the code reads it.             *)
(***************************************************************************)
EXTENDS Naturals, Sequences, FiniteSets

(* ------------------------------------------------------------------ *)
(* Strings that the code inspects (substring tests) are sequences of   *)
(* characters; None is the empty sequence.                             *)
(* ------------------------------------------------------------------ *)
None == <<>>

Processor == <<"P", "r", "o", "c", "e", "s", "s", "o", "r">>
CLIPProcessor == <<"C", "L", "I", "P">> \o Processor
AltCLIPProcessor == <<"A", "l", "t">> \o CLIPProcessor
Wav2Vec2Processor == <<"W", "a", "v", "2", "V", "e", "c", "2">> \o Processor
Wav2Vec2ProcessorWithLM == Wav2Vec2Processor \o <<"W", "i", "t", "h", "L", "M">>
MyProcessor == <<"M", "y">> \o Processor
LegacyProcessor == <<"L", "e", "g", "a", "c", "y">> \o Processor

\* class names a config file may declare under "processor_class"
ClassNames ==
    {CLIPProcessor, Wav2Vec2Processor, Wav2Vec2ProcessorWithLM, MyProcessor,
     LegacyProcessor}

\* Python's `a in b` on two strings
IsSubstring(a, b) ==
    \E i \in 0..Len(b) : i + Len(a) <= Len(b) /\ SubSeq(b, i + 1, i + Len(a)) = a

(* ------------------------------------------------------------------ *)
(* The static table, a slice of it in table order.                     *)
(* ------------------------------------------------------------------ *)
PROCESSOR_MAPPING_NAMES ==
    << <<"aimv2", CLIPProcessor>>,
       <<"altclip", AltCLIPProcessor>>,
       <<"clip", CLIPProcessor>>,
       <<"wav2vec2", Wav2Vec2Processor>> >>

StaticTypes == {PROCESSOR_MAPPING_NAMES[i][1] : i \in 1..Len(PROCESSOR_MAPPING_NAMES)}

\* config classes for which AutoProcessor.register may be called
ExtConfigTypes == {"custom"}

\* the model types of the configurations met; "bert" has no processor
ConfigTypes == {"clip", "wav2vec2", "custom", "bert"}

\* the table read as a dict: model type -> class name
MappedName(model_type) ==
    LET i == CHOOSE j \in 1..Len(PROCESSOR_MAPPING_NAMES) :
                 PROCESSOR_MAPPING_NAMES[j][1] = model_type
    IN PROCESSOR_MAPPING_NAMES[i][2]

\* getattr(module, class_name): the processor classes each model module defines
ModuleAttrs(module_name) ==
    CASE module_name = "altclip" -> {AltCLIPProcessor}
      [] module_name = "clip" -> {CLIPProcessor}
      [] module_name = "wav2vec2" -> {Wav2Vec2Processor}
      [] OTHER -> {}

\* hasattr(main_module, class_name): the names of the library's top-level module
MainModuleAttrs ==
    {CLIPProcessor, AltCLIPProcessor, Wav2Vec2Processor, Wav2Vec2ProcessorWithLM}

NoClass == [found |-> FALSE, origin |-> "None", module |-> "None", name |-> None]

\* line 153: the test that selects a table entry for class_name
TableEntrySelects(class_name, processors) == IsSubstring(class_name, processors)

\* lines 152-160: the loop over the table from entry i on; the modules it
\* imports are accumulated in `imported`
RECURSIVE ScanTable(_, _, _)
ScanTable(i, class_name, imported) ==
    IF i > Len(PROCESSOR_MAPPING_NAMES)
    THEN [cls |-> NoClass, imported |-> imported]
    ELSE LET module_name == PROCESSOR_MAPPING_NAMES[i][1]
             processors == PROCESSOR_MAPPING_NAMES[i][2]
         IN IF TableEntrySelects(class_name, processors)
            THEN IF class_name \in ModuleAttrs(module_name)
                 THEN [cls |-> [found |-> TRUE, origin |-> "module",
                                module |-> module_name, name |-> class_name],
                       imported |-> Append(imported, module_name)]
                 ELSE ScanTable(i + 1, class_name, Append(imported, module_name))
            ELSE ScanTable(i + 1, class_name, imported)

\* lines 162-164: the registered classes, matched by __name__
ExtraHas(ex, class_name) ==
    \E t \in ExtConfigTypes : ex[t] # None /\ ex[t] = class_name

\* lines 151-172; the result also says which sources were consulted
processor_class_from_name(class_name, ex) ==
    LET scan == ScanTable(1, class_name, <<>>)
    IN IF scan.cls.found
       THEN [cls |-> scan.cls, imported |-> scan.imported,
             consulted |-> <<"PROCESSOR_MAPPING_NAMES">>]
       ELSE IF ExtraHas(ex, class_name)
       THEN [cls |-> [found |-> TRUE, origin |-> "extra", module |-> "None",
                      name |-> class_name],
             imported |-> scan.imported,
             consulted |-> <<"PROCESSOR_MAPPING_NAMES", "_extra_content">>]
       ELSE IF class_name \in MainModuleAttrs
       THEN [cls |-> [found |-> TRUE, origin |-> "main", module |-> "transformers",
                      name |-> class_name],
             imported |-> scan.imported,
             consulted |-> <<"PROCESSOR_MAPPING_NAMES", "_extra_content", "main_module">>]
       ELSE [cls |-> NoClass, imported |-> scan.imported,
             consulted |-> <<"PROCESSOR_MAPPING_NAMES", "_extra_content", "main_module">>]

(* ------------------------------------------------------------------ *)
(* Inputs of one call and what the repository may hold.                *)
(* ------------------------------------------------------------------ *)
Identifiers == {"facebook/wav2vec2-base-960h", "./test/saved_model/"}

AuthTokens == {"None", "hf_token"}

TrustValues == {"None", "True"}

\* an "auto_map" entry for AutoProcessor, split at "--"
LocalRef == <<"processing_custom.CustomProcessor">>
UpstreamRef == <<"upstream/repo", "processing_custom.CustomProcessor">>
\* the references the probed files declare; a configuration declares UpstreamRef
AutoMapRefs == {LocalRef}

NoConfig == [model_type |-> "None", processor_class |-> None, auto_map |-> None]

\* configurations AutoConfig.from_pretrained may return
Configs ==
    [model_type : ConfigTypes,
     processor_class : {None, Wav2Vec2Processor},
     auto_map : {None, UpstreamRef}]

\* configurations the caller may pass as `config`
KwargConfigs ==
    {[model_type |-> "clip", processor_class |-> None, auto_map |-> None],
     [model_type |-> "bert", processor_class |-> None, auto_map |-> UpstreamRef],
     [model_type |-> "custom", processor_class |-> CLIPProcessor, auto_map |-> None]}

\* the number of AutoProcessor.register calls before the call that is followed
MaxRegistrations == 1

FileProbes == {"processor", "preprocessor", "video", "feature_extractor", "tokenizer"}
Probes == FileProbes \cup {"config"}

\* the order in which the sources are probed
ProbeOrder ==
    <<"processor", "preprocessor", "video", "feature_extractor", "tokenizer", "config">>

VARIABLES
    pc,                              \* the statement from_pretrained is at
    extra,                           \* PROCESSOR_MAPPING._extra_content
    nRegistered,                     \* register calls made
    pretrained_model_name_or_path,   \* the identifier passed in
    use_auth_token, token,           \* kwargs
    config,                          \* kwarg `config`, later the loaded configuration
    trust_remote_code,               \* kwarg, later the policy's answer
    processor_class,                 \* declared name, after line 360 the class
    processor_auto_map,              \* the remote-code reference
    yielded,                         \* per probe: the class name read from it
    declaredRef,                     \* per probe: the remote-code reference read from it
    fileFound,                       \* per probe: "unprobed", "None" or "file"
    trace,                           \* the calls made to collaborators, in order
    imported,                        \* modules imported by processor_class_from_name
    result,                          \* what the call returned
    error                            \* what the call raised

resolverVars ==
    <<pc, extra, nRegistered, pretrained_model_name_or_path, use_auth_token, token,
      config, trust_remote_code, processor_class, processor_auto_map, yielded,
      declaredRef, fileFound, trace, imported, result, error>>

(* The state of one run of the checkpoint conversion script                *)
(* (convert_wav2vec2_original_pytorch_checkpoint_to_pytorch.py).           *)
VARIABLES
    cpc,                             \* the statement convert_wav2vec2_checkpoint is at
    args,                            \* the arguments __main__ passes on, and the
                                     \* feat_extract_norm of the configuration
    fairseq_dict,                    \* the source state dictionary, in its order
    idx,                             \* parameters of fairseq_dict processed so far
    hf_data,                         \* the assignments made to destination slots
    hf_dict,                         \* the destination dictionary rename_dict fills
    unused_weights,                  \* the list recursively_load_weights collects
    warnings,                        \* what logger.warning was given
    outputs,                         \* what was written under the output path, in order
    cerror                           \* what the run raised

convVars ==
    <<cpc, args, fairseq_dict, idx, hf_data, hf_dict, unused_weights, warnings,
      outputs, cerror>>

vars == <<resolverVars, convVars>>

NoArgs ==
    [is_finetuned |-> FALSE, is_seq_class |-> FALSE, dict_path |-> "None",
     feat_extract_norm |-> "group"]
NoRaise == [kind |-> "none", message |-> ""]

ConvIdle ==
    /\ cpc = "idle"
    /\ args = NoArgs
    /\ fairseq_dict = <<>>
    /\ idx = 0
    /\ hf_data = <<>>
    /\ hf_dict = <<>>
    /\ unused_weights = <<>>
    /\ warnings = <<>>
    /\ outputs = <<>>
    /\ cerror = NoRaise

NoResult == [via |-> "none", cls |-> NoClass]
NoError == [kind |-> "none", message |-> <<>>]

Declared(name) ==
    [found |-> name # None, origin |-> "declared", module |-> "None", name |-> name]

Init ==
    /\ pc = "idle"
    /\ extra = [t \in ExtConfigTypes |-> None]
    /\ nRegistered = 0
    /\ pretrained_model_name_or_path = "None"
    /\ use_auth_token = "None"
    /\ token = "None"
    /\ config = NoConfig
    /\ trust_remote_code = "None"
    /\ processor_class = NoClass
    /\ processor_auto_map = None
    /\ yielded = [p \in Probes |-> None]
    /\ declaredRef = [p \in Probes |-> None]
    /\ fileFound = [p \in Probes |-> "unprobed"]
    /\ trace = <<>>
    /\ imported = <<>>
    /\ result = NoResult
    /\ error = NoError
    /\ ConvIdle

callState ==
    <<pretrained_model_name_or_path, use_auth_token, token, config, trust_remote_code,
      processor_class, processor_auto_map, yielded, declaredRef, fileFound, trace,
      imported, result, error>>

(* ------------------------------------------------------------------ *)
(* AutoProcessor.register (lines 417-427).                             *)
(* ------------------------------------------------------------------ *)
\* PROCESSOR_MAPPING.register: a config class of the static table is refused
\* unless exist_ok; the registered class is kept under its config class
MappingRegister(ex, config_class, cls, exist_ok) ==
    IF config_class \in StaticTypes /\ ~exist_ok
    THEN ex
    ELSE [ex EXCEPT ![config_class] = cls]

Register ==
    /\ pc = "idle"
    /\ nRegistered < MaxRegistrations
    /\ \E config_class \in ExtConfigTypes, cls \in {MyProcessor} :
           extra' = MappingRegister(extra, config_class, cls, FALSE)
    /\ nRegistered' = nRegistered + 1
    /\ UNCHANGED <<pc, callState>>

\* type(config) in PROCESSOR_MAPPING
TypeInMapping(cfg, ex) ==
    \/ cfg.model_type \in StaticTypes
    \/ (cfg.model_type \in ExtConfigTypes /\ ex[cfg.model_type] # None)

\* PROCESSOR_MAPPING[type(config)]
MappingGetItem(cfg, ex) ==
    IF cfg.model_type \in ExtConfigTypes /\ ex[cfg.model_type] # None
    THEN [found |-> TRUE, origin |-> "extra", module |-> "None",
          name |-> ex[cfg.model_type]]
    ELSE [found |-> TRUE, origin |-> "mapping", module |-> cfg.model_type,
          name |-> MappedName(cfg.model_type)]

(* ------------------------------------------------------------------ *)
(* AutoProcessor.from_pretrained (lines 191-415).                      *)
(* ------------------------------------------------------------------ *)
Call ==
    /\ pc = "idle"
    /\ \E id \in Identifiers, uat \in AuthTokens, tok \in AuthTokens,
          cfg \in {NoConfig} \cup KwargConfigs, trust \in TrustValues :
           /\ pretrained_model_name_or_path' = id
           /\ use_auth_token' = uat
           /\ token' = tok
           /\ config' = cfg
           /\ trust_remote_code' = trust
    /\ pc' = "args"
    /\ UNCHANGED <<extra, nRegistered, processor_class, processor_auto_map, yielded,
                   declaredRef, fileFound, trace, imported, result, error>>

\* lines 264-267
TokenConflictMessage ==
    <<"token and use_auth_token are both specified. Please set only the argument token.">>

\* lines 258-275
CheckArgs ==
    /\ pc = "args"
    /\ IF use_auth_token # "None" /\ token # "None"
       THEN /\ pc' = "raised"
            /\ error' = [kind |-> "ValueError:token", message |-> TokenConflictMessage]
            /\ UNCHANGED <<token, use_auth_token>>
       ELSE /\ pc' = "probe_processor"
            /\ token' = IF use_auth_token # "None" THEN use_auth_token ELSE token
            /\ use_auth_token' = "None"
            /\ UNCHANGED error
    /\ UNCHANGED <<extra, nRegistered, pretrained_model_name_or_path, config,
                   trust_remote_code, processor_class, processor_auto_map, yielded,
                   declaredRef, fileFound, trace, imported, result>>

\* CachedFile with _raise_exceptions_for_missing_entries left on
CachedFileRaising(exists) == IF exists THEN "file" ELSE "raise"

\* lines 279-287: cached_file with the three _raise_exceptions_* flags off
\* answers a path or None, and never raises
CachedFile(exists) == IF exists THEN "file" ELSE "None"

\* what a probe may read: nothing is read from a file that is not there
Readable(exists, cls, ref) == exists \/ (cls = None /\ ref = None)

\* lines 293-295 and their four repetitions: processor_class is overwritten,
\* processor_auto_map only when the source declares one
ReadAutoMap(ref, auto_map) == IF ref # None THEN ref ELSE auto_map

\* NextAfterProcessor without the guard of line 297
NextAfterProcessorUnguarded(pclass) == "probe_preprocessor"

\* the `if processor_class is None` guards of lines 297, 334 and 347
NextAfterProcessor(pclass) ==
    IF pclass.found THEN "resolve" ELSE "probe_preprocessor"

\* line 334
NextBeforeTokenizer(pclass) ==
    IF pclass.found THEN "resolve" ELSE "probe_tokenizer"

\* NextAfterPreprocessor with the video probe left out
NextAfterPreprocessorNoVideo(file, pclass) ==
    IF file = "None" THEN "probe_feature_extractor" ELSE NextBeforeTokenizer(pclass)

\* line 309: the video probe is guarded by the preprocessor file being None
NextAfterPreprocessor(file, pclass) ==
    IF file = "None" THEN "probe_video" ELSE NextBeforeTokenizer(pclass)

\* line 322: guarded by the video file being None too
NextAfterVideo(file, pclass) ==
    IF file = "None" THEN "probe_feature_extractor" ELSE NextBeforeTokenizer(pclass)

\* line 347 without its test
NextAfterTokenizerAlways(pclass) == "load_config"

\* line 347
NextAfterTokenizer(pclass) ==
    IF pclass.found THEN "resolve" ELSE "load_config"

\* one file probe: the fetch, and the read of the file when `reads`
FileProbe(p, exists, cls, ref, reads, next) ==
    LET file == CachedFile(exists)
    IN IF file = "raise"
       THEN /\ pc' = "raised"
            /\ error' = [kind |-> "EntryNotFoundError", message |-> <<p>>]
            /\ trace' = Append(trace, "cached_file:" \o p)
            /\ UNCHANGED <<fileFound, yielded, declaredRef, processor_class,
                           processor_auto_map>>
       ELSE /\ fileFound' = [fileFound EXCEPT ![p] = file]
            /\ IF file = "file" /\ reads
               THEN /\ yielded' = [yielded EXCEPT ![p] = cls]
                    /\ declaredRef' = [declaredRef EXCEPT ![p] = ref]
                    /\ processor_class' = Declared(cls)
                    /\ processor_auto_map' = ReadAutoMap(ref, processor_auto_map)
                    /\ trace' = trace \o <<"cached_file:" \o p, "read:" \o p>>
               ELSE /\ trace' = Append(trace, "cached_file:" \o p)
                    /\ UNCHANGED <<yielded, declaredRef, processor_class,
                                   processor_auto_map>>
            /\ pc' = next
            /\ UNCHANGED error

probeFrame ==
    <<extra, nRegistered, pretrained_model_name_or_path, use_auth_token, token, config,
      trust_remote_code, imported, result>>

\* lines 289-295
ProbeProcessor ==
    /\ pc = "probe_processor"
    /\ \E exists \in BOOLEAN, cls \in ClassNames \cup {None},
          ref \in AutoMapRefs \cup {None} :
           /\ Readable(exists, cls, ref)
           /\ FileProbe("processor", exists, cls, ref, TRUE,
                        NextAfterProcessor(Declared(cls)))
    /\ UNCHANGED probeFrame

\* lines 297-306
ProbePreprocessor ==
    /\ pc = "probe_preprocessor"
    /\ \E exists \in BOOLEAN, cls \in ClassNames \cup {None},
          ref \in AutoMapRefs \cup {None} :
           /\ Readable(exists, cls, ref)
           /\ FileProbe("preprocessor", exists, cls, ref, TRUE,
                        NextAfterPreprocessor(CachedFile(exists), Declared(cls)))
    /\ UNCHANGED probeFrame

\* lines 308-319
ProbeVideo ==
    /\ pc = "probe_video"
    /\ \E exists \in BOOLEAN, cls \in ClassNames \cup {None},
          ref \in AutoMapRefs \cup {None} :
           /\ Readable(exists, cls, ref)
           /\ FileProbe("video", exists, cls, ref, TRUE,
                        NextAfterVideo(CachedFile(exists), Declared(cls)))
    /\ UNCHANGED probeFrame

\* lines 321-332: the same file name as line 300 is fetched again; a fetch that
\* failed on a swallowed connection error may now succeed
ProbeFeatureExtractor ==
    /\ pc = "probe_feature_extractor"
    /\ \E exists \in BOOLEAN, cls \in ClassNames \cup {None},
          ref \in AutoMapRefs \cup {None} :
           /\ Readable(exists, cls, ref)
           /\ FileProbe("feature_extractor", exists, cls, ref, ~processor_class.found,
                        NextBeforeTokenizer(IF exists THEN Declared(cls)
                                            ELSE processor_class))
    /\ UNCHANGED probeFrame

\* lines 334-345: the tokenizer config is parsed with json.load, which raises
\* on a file that is not JSON
ProbeTokenizer ==
    /\ pc = "probe_tokenizer"
    /\ \E exists \in BOOLEAN, parses \in BOOLEAN, cls \in ClassNames \cup {None},
          ref \in AutoMapRefs \cup {None} :
           /\ Readable(exists /\ parses, cls, ref)
           /\ exists \/ parses
           /\ IF CachedFile(exists) = "file" /\ ~parses
              THEN /\ pc' = "raised"
                   /\ error' = [kind |-> "JSONDecodeError", message |-> <<"tokenizer">>]
                   /\ fileFound' = [fileFound EXCEPT !["tokenizer"] = "file"]
                   /\ trace' = trace \o <<"cached_file:tokenizer", "json.load">>
                   /\ UNCHANGED <<yielded, declaredRef, processor_class,
                                  processor_auto_map>>
              ELSE FileProbe("tokenizer", exists, cls, ref, TRUE,
                             NextAfterTokenizer(Declared(cls)))
    /\ UNCHANGED probeFrame

\* lines 347-357: a configuration passed by the caller is used as it is;
\* otherwise AutoConfig.from_pretrained loads one, or raises (NoConfig)
LoadConfig ==
    /\ pc = "load_config"
    /\ \E loaded \in Configs \cup {NoConfig} :
           /\ (config # NoConfig) => (loaded = config)
           /\ IF loaded = NoConfig
              THEN /\ pc' = "raised"
                   /\ error' = [kind |-> "AutoConfig", message |-> <<"config">>]
                   /\ trace' = Append(trace, "AutoConfig.from_pretrained")
                   /\ UNCHANGED <<config, yielded, declaredRef, fileFound,
                                  processor_class, processor_auto_map>>
              ELSE /\ config' = loaded
                   /\ yielded' = [yielded EXCEPT !["config"] = loaded.processor_class]
                   /\ declaredRef' = [declaredRef EXCEPT !["config"] = loaded.auto_map]
                   /\ fileFound' = [fileFound EXCEPT !["config"] = "file"]
                   /\ processor_class' = Declared(loaded.processor_class)
                   /\ processor_auto_map' = ReadAutoMap(loaded.auto_map, processor_auto_map)
                   /\ trace' = IF config = NoConfig
                               THEN trace \o <<"AutoConfig.from_pretrained", "read:config">>
                               ELSE Append(trace, "read:config")
                   /\ pc' = "resolve"
                   /\ UNCHANGED error
    /\ UNCHANGED <<extra, nRegistered, pretrained_model_name_or_path, use_auth_token,
                   token, trust_remote_code, imported, result>>

\* lines 359-360
Resolve ==
    /\ pc = "resolve"
    /\ IF processor_class.found
       THEN LET r == processor_class_from_name(processor_class.name, extra)
            IN /\ processor_class' = r.cls
               /\ imported' = r.imported
               /\ trace' = trace \o r.consulted
       ELSE UNCHANGED <<processor_class, imported, trace>>
    /\ pc' = "trust"
    /\ UNCHANGED <<extra, nRegistered, pretrained_model_name_or_path, use_auth_token,
                   token, config, trust_remote_code, processor_auto_map, yielded,
                   declaredRef, fileFound, result, error>>

\* line 362
HasRemoteCode(auto_map) == auto_map # None

\* lines 365-368
UpstreamRepo(auto_map) == IF Len(auto_map) > 1 THEN auto_map[1] ELSE "None"

\* the policy function: its answer for these arguments is the collaborator's
resolve_trust_remote_code(trust, id, has_local_code, has_remote_code, upstream, answer) ==
    IF answer THEN "True" ELSE "False"

\* lines 362-371; `or` evaluates the mapping test only when no class was resolved
TrustDecision ==
    /\ pc = "trust"
    /\ LET has_remote_code == HasRemoteCode(processor_auto_map)
           has_local_code == processor_class.found \/ TypeInMapping(config, extra)
           seen == IF processor_class.found THEN trace
                   ELSE Append(trace, "PROCESSOR_MAPPING.__contains__")
       IN IF has_remote_code
          THEN \E answer \in BOOLEAN :
                   /\ trust_remote_code' =
                          resolve_trust_remote_code(trust_remote_code,
                              pretrained_model_name_or_path, has_local_code,
                              has_remote_code, UpstreamRepo(processor_auto_map), answer)
                   /\ trace' = Append(seen, "resolve_trust_remote_code")
          ELSE /\ trace' = seen
               /\ UNCHANGED trust_remote_code
    /\ pc' = "instantiate"
    /\ UNCHANGED <<extra, nRegistered, pretrained_model_name_or_path, use_auth_token,
                   token, config, processor_class, processor_auto_map, yielded,
                   declaredRef, fileFound, imported, result, error>>

CustomProcessor == <<"C", "u", "s", "t", "o", "m">> \o Processor

\* get_class_from_dynamic_module: the class the reference names
RemoteClass(auto_map) ==
    [found |-> TRUE, origin |-> "remote", module |-> auto_map[Len(auto_map)],
     name |-> CustomProcessor]

\* InstantiateBranch with the table consulted before the resolved class
InstantiateBranchMappingFirst(has_remote_code, trust, pclass, in_mapping) ==
    IF has_remote_code /\ trust = "True" THEN "remote"
    ELSE IF in_mapping THEN "mapping"
    ELSE IF pclass.found THEN "local"
    ELSE "fallback"

\* InstantiateBranch without the last try of line 387
InstantiateBranchNoMapping(has_remote_code, trust, pclass, in_mapping) ==
    IF has_remote_code /\ trust = "True" THEN "remote"
    ELSE IF pclass.found THEN "local"
    ELSE "fallback"

\* InstantiateBranch with the resolved class preferred to trusted remote code
InstantiateBranchLocalFirst(has_remote_code, trust, pclass, in_mapping) ==
    IF pclass.found THEN "local"
    ELSE IF has_remote_code /\ trust = "True" THEN "remote"
    ELSE IF in_mapping THEN "mapping"
    ELSE "fallback"

\* InstantiateBranch loading declared remote code whatever the policy answered
InstantiateBranchIgnoreTrust(has_remote_code, trust, pclass, in_mapping) ==
    IF has_remote_code THEN "remote"
    ELSE IF pclass.found THEN "local"
    ELSE IF in_mapping THEN "mapping"
    ELSE "fallback"

\* lines 373, 382, 387: which source is instantiated
InstantiateBranch(has_remote_code, trust, pclass, in_mapping) ==
    IF has_remote_code /\ trust = "True" THEN "remote"
    ELSE IF pclass.found THEN "local"
    ELSE IF in_mapping THEN "mapping"
    ELSE "fallback"

\* lines 373-388
Instantiate ==
    /\ pc = "instantiate"
    /\ LET branch == InstantiateBranch(HasRemoteCode(processor_auto_map),
                                       trust_remote_code, processor_class,
                                       TypeInMapping(config, extra))
       IN CASE branch = "remote" ->
                 /\ processor_class' = RemoteClass(processor_auto_map)
                 /\ result' = [via |-> "remote", cls |-> RemoteClass(processor_auto_map)]
                 /\ trace' = Append(trace, "get_class_from_dynamic_module")
                 /\ pc' = "returned"
            [] branch = "local" ->
                 /\ result' = [via |-> "local", cls |-> processor_class]
                 /\ pc' = "returned"
                 /\ UNCHANGED <<processor_class, trace>>
            [] branch = "mapping" ->
                 /\ result' = [via |-> "mapping", cls |-> MappingGetItem(config, extra)]
                 /\ trace' = trace \o <<"PROCESSOR_MAPPING.__contains__",
                                        "PROCESSOR_MAPPING.__getitem__">>
                 /\ pc' = "returned"
                 /\ UNCHANGED processor_class
            [] OTHER ->
                 /\ trace' = Append(trace, "PROCESSOR_MAPPING.__contains__")
                 /\ pc' = "try_tokenizer"
                 /\ UNCHANGED <<processor_class, result>>
    /\ UNCHANGED <<extra, nRegistered, pretrained_model_name_or_path, use_auth_token,
                   token, config, trust_remote_code, processor_auto_map, yielded,
                   declaredRef, fileFound, imported, error>>

\* FallbackLoader with the image processor tried before the tokenizer
FallbackLoaderImageFirst(stage) ==
    CASE stage = "try_tokenizer" -> "AutoImageProcessor"
      [] stage = "try_image_processor" -> "AutoTokenizer"
      [] stage = "try_feature_extractor" -> "AutoFeatureExtractor"

\* lines 392-409: the loader tried at each stage of the last resort
FallbackLoader(stage) ==
    CASE stage = "try_tokenizer" -> "AutoTokenizer"
      [] stage = "try_image_processor" -> "AutoImageProcessor"
      [] stage = "try_feature_extractor" -> "AutoFeatureExtractor"

\* UnrecognizedMessage without the identifier
UnrecognizedMessageNoId(id) ==
    <<"Unrecognized processing class. Can't instantiate a processor, a tokenizer, an image processor or a feature extractor for this model.">>

\* lines 411-415
UnrecognizedMessage(id) ==
    <<"Unrecognized processing class in ", id,
      ". Can't instantiate a processor, a tokenizer, an image processor or a feature extractor for this model. Make sure the repository contains the files of at least one of those processing classes.">>

\* one try block: the loader's result is returned, its exception is dropped
TryLoader(stage, succeeds, next) ==
    /\ pc = stage
    /\ trace' = Append(trace, FallbackLoader(stage) \o ".from_pretrained")
    /\ IF succeeds
       THEN /\ result' = [via |-> FallbackLoader(stage), cls |-> NoClass]
            /\ pc' = "returned"
       ELSE /\ pc' = next
            /\ UNCHANGED result
    /\ UNCHANGED <<extra, nRegistered, pretrained_model_name_or_path, use_auth_token,
                   token, config, trust_remote_code, processor_class,
                   processor_auto_map, yielded, declaredRef, fileFound, imported, error>>

\* lines 392-396
TryTokenizer == \E succeeds \in BOOLEAN : TryLoader("try_tokenizer", succeeds, "try_image_processor")

\* lines 397-402
TryImageProcessor ==
    \E succeeds \in BOOLEAN : TryLoader("try_image_processor", succeeds, "try_feature_extractor")

\* lines 404-409
TryFeatureExtractor ==
    \E succeeds \in BOOLEAN : TryLoader("try_feature_extractor", succeeds, "raise_unrecognized")

\* lines 411-415
RaiseUnrecognized ==
    /\ pc = "raise_unrecognized"
    /\ pc' = "raised"
    /\ error' = [kind |-> "ValueError:unrecognized",
                 message |-> UnrecognizedMessage(pretrained_model_name_or_path)]
    /\ UNCHANGED <<extra, nRegistered, pretrained_model_name_or_path, use_auth_token,
                   token, config, trust_remote_code, processor_class,
                   processor_auto_map, yielded, declaredRef, fileFound, trace, imported,
                   result>>

Next ==
    \/ Register /\ UNCHANGED convVars
    \/ Call /\ UNCHANGED convVars
    \/ CheckArgs /\ UNCHANGED convVars
    \/ ProbeProcessor /\ UNCHANGED convVars
    \/ ProbePreprocessor /\ UNCHANGED convVars
    \/ ProbeVideo /\ UNCHANGED convVars
    \/ ProbeFeatureExtractor /\ UNCHANGED convVars
    \/ ProbeTokenizer /\ UNCHANGED convVars
    \/ LoadConfig /\ UNCHANGED convVars
    \/ Resolve /\ UNCHANGED convVars
    \/ TrustDecision /\ UNCHANGED convVars
    \/ Instantiate /\ UNCHANGED convVars
    \/ TryTokenizer /\ UNCHANGED convVars
    \/ TryImageProcessor /\ UNCHANGED convVars
    \/ TryFeatureExtractor /\ UNCHANGED convVars
    \/ RaiseUnrecognized /\ UNCHANGED convVars

Spec == Init /\ [][Next]_vars

(* ------------------------------------------------------------------ *)
(* Vocabulary of the properties.                                       *)
(* ------------------------------------------------------------------ *)
Has(ev) == \E i \in DOMAIN trace : trace[i] = ev

Finished == pc \in {"returned", "raised"}

\* the class name the probes ended with: at most one probe yields one
WinnerName ==
    IF \E p \in Probes : yielded[p] # None
    THEN yielded[CHOOSE p \in Probes : yielded[p] # None]
    ELSE None

\* what lines 359-360 make of that name
ResolvedLocal ==
    IF WinnerName = None THEN NoClass
    ELSE processor_class_from_name(WinnerName, extra).cls

RemoteTrusted == processor_auto_map # None /\ trust_remote_code = "True"

\* line 373 and what follows it have been executed
PastInstantiate ==
    pc \in {"try_tokenizer", "try_image_processor", "try_feature_extractor",
            "raise_unrecognized", "returned"}
    \/ (pc = "raised" /\ error.kind = "ValueError:unrecognized")

IsFallbackCall(ev) ==
    ev \in {"AutoTokenizer.from_pretrained", "AutoImageProcessor.from_pretrained",
            "AutoFeatureExtractor.from_pretrained"}

FallbackTrace == SelectSeq(trace, IsFallbackCall)

FallbackOrder ==
    <<"AutoTokenizer.from_pretrained", "AutoImageProcessor.from_pretrained",
      "AutoFeatureExtractor.from_pretrained">>

IsPrefix(s, t) == Len(s) <= Len(t) /\ SubSeq(t, 1, Len(s)) = s

TypeLookupMade ==
    Has("PROCESSOR_MAPPING.__contains__") \/ Has("PROCESSOR_MAPPING.__getitem__")

(* ------------------------------------------------------------------ *)
(* C1                                                                  *)
(* ------------------------------------------------------------------ *)
\* C1 as stated: whenever the processor config declares a class name, the call
\* returns an instance of the class of that name and neither PROCESSOR_MAPPING_NAMES
\* nor PROCESSOR_MAPPING has been consulted.
C1_AsStated ==
    (Finished /\ yielded["processor"] # None) =>
        /\ pc = "returned"
        /\ result.cls.name = yielded["processor"]
        /\ ~Has("PROCESSOR_MAPPING_NAMES")
        /\ ~Has("_extra_content")
        /\ ~TypeLookupMade

\* C1 amended: when the processor config declares a class name that
\* processor_class_from_name resolves, and remote code is not both declared and
\* trusted, the call returns through the resolved class, whose name is the declared
\* one; the lookup by configuration type in PROCESSOR_MAPPING is never made, while
\* processor_class_from_name has iterated PROCESSOR_MAPPING_NAMES.
C1_DeclaredClassReturned ==
    (Finished /\ yielded["processor"] # None /\ ResolvedLocal.found /\ ~RemoteTrusted) =>
        /\ pc = "returned"
        /\ result.via = "local"
        /\ result.cls = ResolvedLocal
        /\ result.cls.name = yielded["processor"]
        /\ ~TypeLookupMade
        /\ Has("PROCESSOR_MAPPING_NAMES")

C1_Witness ==
    /\ pc = "returned"
    /\ yielded["processor"] = Wav2Vec2Processor
    /\ result.via = "local"
    /\ result.cls.name = Wav2Vec2Processor
    /\ result.cls.module = "wav2vec2"

(* ------------------------------------------------------------------ *)
(* C2                                                                  *)
(* ------------------------------------------------------------------ *)
NoProcessorPreprocessorTokenizerFile ==
    /\ fileFound["processor"] = "None"
    /\ fileFound["preprocessor"] = "None"
    /\ fileFound["feature_extractor"] \in {"None", "unprobed"}
    /\ fileFound["tokenizer"] = "None"

\* C2 as stated: with no processor, preprocessor or tokenizer config file and a
\* loaded configuration whose type is in the static table, the call returns an
\* instance of the class the table gives for that type.
C2_AsStated ==
    (Finished /\ NoProcessorPreprocessorTokenizerFile /\ fileFound["config"] = "file"
       /\ config.model_type \in StaticTypes) =>
        /\ pc = "returned"
        /\ result.via = "mapping"
        /\ result.cls.name = MappedName(config.model_type)

\* C2 amended: the same, provided also that no probed source (the video-processor
\* config, the model configuration) declares a processor class name and that remote
\* code is not both declared and trusted.
C2_MappedClassReturned ==
    (Finished /\ NoProcessorPreprocessorTokenizerFile /\ fileFound["config"] = "file"
       /\ config.model_type \in StaticTypes
       /\ WinnerName = None /\ ~RemoteTrusted) =>
        /\ pc = "returned"
        /\ result.via = "mapping"
        /\ result.cls.name = MappedName(config.model_type)
        /\ Has("PROCESSOR_MAPPING.__getitem__")

C2_Witness ==
    /\ pc = "returned"
    /\ NoProcessorPreprocessorTokenizerFile
    /\ Has("AutoConfig.from_pretrained")
    /\ config.model_type = "clip"
    /\ result.via = "mapping"
    /\ result.cls.name = CLIPProcessor

(* ------------------------------------------------------------------ *)
(* C3                                                                  *)
(* ------------------------------------------------------------------ *)
\* the last resort of lines 392-409 as the claims describe it: the loaders are
\* tried in the order tokenizer, image processor, feature extractor, the first
\* success is returned and nothing is tried after it, and a loader's failure
\* leaves no error behind
FallbackChainRun ==
    /\ FallbackTrace # <<>>
    /\ IsPrefix(FallbackTrace, FallbackOrder)
    /\ pc = "returned" =>
           /\ result.via \o ".from_pretrained" = FallbackTrace[Len(FallbackTrace)]
           /\ error = NoError
    /\ pc = "raised" =>
           /\ FallbackTrace = FallbackOrder
           /\ error.kind = "ValueError:unrecognized"
           /\ result = NoResult

NoClassAndTypeUnmapped ==
    /\ fileFound["config"] = "file"
    /\ WinnerName = None
    /\ ~TypeInMapping(config, extra)

\* C3 as stated: when no probe yields a processor class name and the configuration
\* type is not in the mapping, the call ends in the last resort.
C3_AsStated == (Finished /\ NoClassAndTypeUnmapped) => FallbackChainRun

\* C3 amended: the same, provided that remote code is not both declared and
\* trusted; and a loader is never tried out of order in any execution.
C3_FallbackOrder ==
    /\ IsPrefix(FallbackTrace, FallbackOrder)
    /\ (Finished /\ NoClassAndTypeUnmapped /\ ~RemoteTrusted) => FallbackChainRun

C3_Witness ==
    /\ pc = "returned"
    /\ NoClassAndTypeUnmapped
    /\ FallbackTrace = FallbackOrder
    /\ result.via = "AutoFeatureExtractor"

(* ------------------------------------------------------------------ *)
(* C4                                                                  *)
(* ------------------------------------------------------------------ *)
\* the three loaders were tried, none returned, and line 411 has been executed
AllFallbacksFailed ==
    /\ FallbackTrace = FallbackOrder
    /\ result.via # "AutoFeatureExtractor"
    /\ pc # "raise_unrecognized"

\* C4: when no probe yields a processor class name, the configuration type is not
\* in the mapping and the three loaders of the last resort have all failed, the call
\* raises, returns nothing, and the message holds the identifier passed in.
C4_RaisesNamingIdentifier ==
    (NoClassAndTypeUnmapped /\ AllFallbacksFailed) =>
        /\ pc = "raised"
        /\ result = NoResult
        /\ error.kind = "ValueError:unrecognized"
        /\ \E i \in DOMAIN error.message :
               error.message[i] = pretrained_model_name_or_path

C4_Witness ==
    /\ NoClassAndTypeUnmapped
    /\ AllFallbacksFailed
    /\ pc = "raised"
    /\ pretrained_model_name_or_path = "facebook/wav2vec2-base-960h"

(* ------------------------------------------------------------------ *)
(* C5                                                                  *)
(* ------------------------------------------------------------------ *)
\* C5: once line 373 has been passed, trusted remote code has been instantiated if
\* there is any, even when a class was resolved from a declared name; else that
\* resolved class if there is one; else the class mapped to the configuration type
\* if there is one; and none of the three if none is available.
C5_InstantiationPriority ==
    PastInstantiate =>
        /\ RemoteTrusted =>
               (result.via = "remote" /\ result.cls = RemoteClass(processor_auto_map))
        /\ (~RemoteTrusted /\ ResolvedLocal.found) =>
               (result.via = "local" /\ result.cls = ResolvedLocal)
        /\ (~RemoteTrusted /\ ~ResolvedLocal.found /\ TypeInMapping(config, extra)) =>
               (result.via = "mapping" /\ result.cls = MappingGetItem(config, extra))
        /\ (~RemoteTrusted /\ ~ResolvedLocal.found /\ ~TypeInMapping(config, extra)) =>
               result.via \notin {"remote", "local", "mapping"}

C5_Witness ==
    /\ pc = "returned"
    /\ result.via = "remote"
    /\ ResolvedLocal.found
    /\ TypeInMapping(config, extra)

(* ------------------------------------------------------------------ *)
(* C6                                                                  *)
(* ------------------------------------------------------------------ *)
RefDeclared == \E p \in Probes : declaredRef[p] # None

PolicyCalls == {i \in DOMAIN trace : trace[i] = "resolve_trust_remote_code"}

\* lines 362-371 have been executed
PastTrust == pc = "instantiate" \/ PastInstantiate

ProbeRank(p) == CHOOSE i \in DOMAIN ProbeOrder : ProbeOrder[i] = p

CallRank(ev) ==
    CASE ev = "cached_file:processor" -> 1
      [] ev = "cached_file:preprocessor" -> 2
      [] ev = "cached_file:video" -> 3
      [] ev = "cached_file:feature_extractor" -> 4
      [] ev = "cached_file:tokenizer" -> 5
      [] ev = "AutoConfig.from_pretrained" -> 6
      [] ev = "read:config" -> 7
      [] OTHER -> 0

IsProbeCall(ev) == CallRank(ev) > 0

ProbeCalls == SelectSeq(trace, IsProbeCall)

ProbesInOrder ==
    \A i, j \in DOMAIN ProbeCalls :
        i < j => CallRank(ProbeCalls[i]) < CallRank(ProbeCalls[j])

NothingProbedAfter(p) ==
    \A q \in Probes :
        ProbeRank(q) > ProbeRank(p) =>
            (fileFound[q] = "unprobed" /\ yielded[q] = None /\ declaredRef[q] = None)

ClassNameIsFrom(p) ==
    /\ pc = "resolve" => processor_class = Declared(yielded[p])
    /\ pc = "trust" => processor_class = processor_class_from_name(yielded[p], extra).cls
    /\ result.via = "local" => result.cls.name = yielded[p]

\* the reference of the latest probed source that declared one
LastDeclaredRef ==
    IF RefDeclared
    THEN LET last == CHOOSE p \in Probes :
                         /\ declaredRef[p] # None
                         /\ \A q \in Probes :
                                declaredRef[q] # None => ProbeRank(q) <= ProbeRank(p)
         IN declaredRef[last]
    ELSE None

\* C7 as stated: the probes run in the fixed order, and once a probe has yielded a
\* class name nothing later is fetched or read and both the class name and the
\* remote-code reference in use are the ones read from that probe.
C7_AsStated ==
    /\ ProbesInOrder
    /\ \A p \in Probes :
           yielded[p] # None =>
               /\ NothingProbedAfter(p)
               /\ ClassNameIsFrom(p)
               /\ processor_auto_map = declaredRef[p]

\* C7 amended: the same for the order, for what is probed after a yield and for
\* the class name; the remote-code reference in use is the one declared by the
\* latest probed source that declared one, which may be a probe earlier than the
\* one that yielded the class name.
C7_FirstYieldWins ==
    /\ ProbesInOrder
    /\ processor_auto_map = LastDeclaredRef
    /\ \A p \in Probes :
           yielded[p] # None =>
               /\ NothingProbedAfter(p)
               /\ ClassNameIsFrom(p)

C7_Witness ==
    /\ pc = "returned"
    /\ result.via = "local"
    /\ declaredRef["processor"] # None
    /\ yielded["processor"] = None
    /\ yielded["tokenizer"] = Wav2Vec2Processor
    /\ declaredRef["tokenizer"] = None
    /\ fileFound["config"] = "unprobed"

(* ------------------------------------------------------------------ *)
(* C8                                                                  *)
(* ------------------------------------------------------------------ *)
Probed(p) == fileFound[p] # "unprobed"

\* C8 as stated, for the video probe: once the preprocessor probe is over and
\* neither it nor the processor probe yielded a class name, the video-processor
\* config file is looked up.
C8_AsStated ==
    (Probed("preprocessor") /\ pc # "probe_video"
       /\ yielded["processor"] = None /\ yielded["preprocessor"] = None) =>
        Probed("video")

\* C8 amended: the preprocessor probe is made whenever the processor probe yielded
\* no class name; the video probe whenever, in addition, the preprocessor config
\* file was not found; the feature-extractor probe whenever, in addition, the
\* video-processor config file was not found; the tokenizer probe whenever no
\* earlier probe yielded a class name; the configuration is read whenever the
\* tokenizer probe yielded none either.  A preprocessor config file that exists
\* and declares no class name makes the video and feature-extractor probes be
\* skipped.
C8_ProbesPerformed ==
    /\ (Probed("processor") /\ yielded["processor"] = None
          /\ pc # "probe_preprocessor") => Probed("preprocessor")
    /\ (fileFound["preprocessor"] = "None" /\ pc # "probe_video") => Probed("video")
    /\ fileFound["preprocessor"] = "file" =>
           (~Probed("video") /\ ~Probed("feature_extractor"))
    /\ (fileFound["video"] = "None" /\ pc # "probe_feature_extractor") =>
           Probed("feature_extractor")
    /\ fileFound["video"] = "file" => ~Probed("feature_extractor")
    /\ (Probed("preprocessor")
          /\ pc \notin {"probe_video", "probe_feature_extractor", "probe_tokenizer"}
          /\ \A p \in {"preprocessor", "video", "feature_extractor"} : yielded[p] = None)
           => Probed("tokenizer")
    /\ (Probed("tokenizer") /\ yielded["tokenizer"] = None /\ pc # "load_config"
          /\ error.kind \notin {"JSONDecodeError", "AutoConfig"}) => Probed("config")

C8_Witness ==
    /\ fileFound["preprocessor"] = "file"
    /\ yielded["preprocessor"] = None
    /\ ~Probed("video")
    /\ ~Probed("feature_extractor")
    /\ Probed("tokenizer")
    /\ pc = "returned"

RECURSIVE ModulesWithEntry(_, _)
ModulesWithEntry(i, class_name) ==
    IF i > Len(PROCESSOR_MAPPING_NAMES) THEN <<>>
    ELSE IF PROCESSOR_MAPPING_NAMES[i][2] = class_name
         THEN <<PROCESSOR_MAPPING_NAMES[i][1]>> \o ModulesWithEntry(i + 1, class_name)
         ELSE ModulesWithEntry(i + 1, class_name)

\* C10: after processor_class_from_name(class_name), the modules it selected and
\* imported are modules whose table entry is class_name, up to the first of them that
\* exposes the class; the result is the attribute of that module, else the
\* registered class of that name, else the attribute of the top-level module, else
\* None, a later source being consulted only when the earlier ones failed.
C10_AsStated ==
    (pc = "trust" /\ WinnerName # None) =>
        /\ IsPrefix(imported, ModulesWithEntry(1, WinnerName))
        /\ \A i \in DOMAIN imported :
               /\ MappedName(imported[i]) = WinnerName
               /\ WinnerName \in ModuleAttrs(imported[i]) => i = Len(imported)
        /\ processor_class.origin = "module" =>
               /\ imported # <<>>
               /\ processor_class.module = imported[Len(imported)]
               /\ WinnerName \in ModuleAttrs(processor_class.module)
               /\ ~Has("_extra_content") /\ ~Has("main_module")
        /\ processor_class.origin = "extra" =>
               (ExtraHas(extra, WinnerName) /\ ~Has("main_module"))
        /\ processor_class.origin = "main" =>
               (~ExtraHas(extra, WinnerName) /\ WinnerName \in MainModuleAttrs)
        /\ ~processor_class.found =>
               (~ExtraHas(extra, WinnerName) /\ WinnerName \notin MainModuleAttrs)
        /\ processor_class.found => processor_class.name = WinnerName

(* ------------------------------------------------------------------ *)
(* C18                                                                 *)
(* ------------------------------------------------------------------ *)
FileDeclaredName == \E p \in FileProbes : yielded[p] # None

\* a probed file declared a name that processor_class_from_name does not
\* resolve, the caller passed no configuration, and line 360 has been executed
UnresolvedDeclared ==
    /\ FileDeclaredName
    /\ ~ResolvedLocal.found
    /\ config = NoConfig
    /\ pc \in {"trust", "instantiate"} \/ PastInstantiate

InFallbacks ==
    \/ pc \in {"try_tokenizer", "try_image_processor", "try_feature_extractor",
               "raise_unrecognized"}
    \/ (pc = "returned" /\ IsFallbackCall(result.via \o ".from_pretrained"))
    \/ (pc = "raised" /\ error.kind = "ValueError:unrecognized")

\* C18 as stated: with an unresolvable declared name and no configuration passed,
\* the call goes straight to the tokenizer / image-processor / feature-extractor
\* fallbacks.
C18_AsStated ==
    (UnresolvedDeclared /\ PastInstantiate) => InFallbacks

\* C18: the configuration is loaded and read only when no probed file declared a
\* class name. With a declared name that is not resolved and no configuration
\* passed, no configuration is read, PROCESSOR_MAPPING is never indexed and yields
\* no class, and the call goes to the fallbacks unless a probed file declared a
\* remote-code reference that the policy trusts: then the remote class is returned.
C18_ConfigSkipped ==
    /\ (Has("AutoConfig.from_pretrained") \/ Has("read:config")) => ~FileDeclaredName
    /\ UnresolvedDeclared =>
           /\ ~Has("PROCESSOR_MAPPING.__getitem__")
           /\ result.via # "mapping"
           /\ fileFound["config"] = "unprobed"
           /\ PastInstantiate =>
                  IF RemoteTrusted
                  THEN pc = "returned" /\ result.via = "remote"
                  ELSE InFallbacks

\* the fallbacks were entered with a declared name that was not resolved
C18_Witness ==
    /\ UnresolvedDeclared
    /\ yielded["processor"] = LegacyProcessor
    /\ ~RemoteTrusted
    /\ Has("AutoTokenizer.from_pretrained")

(* ================================================================== *)
(* The Wav2Vec2 checkpoint conversion script.                          *)
(* Parameter names are strings; the script's tests on them (in,        *)
(* split, endswith) are computed on the characters.                    *)
(* ================================================================== *)

\* s.find(key): the 1-based place of the first occurrence of key in s, 0 if none
Occurrences(key, s) ==
    {i \in 1..(Len(s) - Len(key) + 1) : SubSeq(s, i, i + Len(key) - 1) = key}
Find(key, s) ==
    LET at == Occurrences(key, s)
    IN  IF at = {} THEN 0 ELSE CHOOSE i \in at : \A j \in at : i <= j

\* s.split(key), for a non-empty key
RECURSIVE Split(_, _)
Split(s, key) ==
    LET at == Find(key, s)
    IN  IF at = 0
        THEN <<s>>
        ELSE <<SubSeq(s, 1, at - 1)>> \o Split(SubSeq(s, at + Len(key), Len(s)), key)

\* s.endswith(suffix)
EndsWith(s, suffix) ==
    Len(suffix) <= Len(s) /\ SubSeq(s, Len(s) - Len(suffix) + 1, Len(s)) = suffix

\* seq[-1] and seq[-2]; the latter raises IndexError on a one-element list
Last(seq) == seq[Len(seq)]
HasSecondToLast(seq) == Len(seq) >= 2
SecondToLast(seq) == seq[Len(seq) - 1]

\* ".".join(parts)
RECURSIVE Join(_)
Join(parts) ==
    IF Len(parts) = 0 THEN ""
    ELSE IF Len(parts) = 1 THEN parts[1]
    ELSE parts[1] \o "." \o Join(Tail(parts))

\* mapped_key.replace("*", layer_index)
RECURSIVE JoinWith(_, _)
JoinWith(parts, sep) ==
    IF Len(parts) = 1 THEN parts[1]
    ELSE parts[1] \o sep \o JoinWith(Tail(parts), sep)
Replace(s, old, new) == JoinWith(Split(s, old), new)

\* int(s) for the decimal strings layer and type indices are written in
DigitValue ==
    [d \in {"0", "1", "2", "3", "4", "5", "6", "7", "8", "9"} |->
        CASE d = "0" -> 0 [] d = "1" -> 1 [] d = "2" -> 2 [] d = "3" -> 3
          [] d = "4" -> 4 [] d = "5" -> 5 [] d = "6" -> 6 [] d = "7" -> 7
          [] d = "8" -> 8 [] d = "9" -> 9]
IsInt(s) ==
    Len(s) > 0 /\ \A i \in 1..Len(s) : SubSeq(s, i, i) \in DOMAIN DigitValue
RECURSIVE int(_)
int(s) ==
    IF Len(s) = 1 THEN DigitValue[s]
    ELSE 10 * int(SubSeq(s, 1, Len(s) - 1)) + DigitValue[SubSeq(s, Len(s), Len(s))]

MAPPING ==
    << <<"post_extract_proj", "feature_projection.projection">>,
       <<"encoder.pos_conv.0", "encoder.pos_conv_embed.conv">>,
       <<"self_attn.k_proj", "encoder.layers.*.attention.k_proj">>,
       <<"self_attn.v_proj", "encoder.layers.*.attention.v_proj">>,
       <<"self_attn.q_proj", "encoder.layers.*.attention.q_proj">>,
       <<"self_attn.out_proj", "encoder.layers.*.attention.out_proj">>,
       <<"self_attn_layer_norm", "encoder.layers.*.layer_norm">>,
       <<"fc1", "encoder.layers.*.feed_forward.intermediate_dense">>,
       <<"fc2", "encoder.layers.*.feed_forward.output_dense">>,
       <<"final_layer_norm", "encoder.layers.*.final_layer_norm">>,
       <<"encoder.layer_norm", "encoder.layer_norm">>,
       <<"adapter_layer", "encoder.layers.*.adapter_layer">>,
       <<"w2v_model.layer_norm", "feature_projection.layer_norm">>,
       <<"quantizer.weight_proj", "quantizer.weight_proj">>,
       <<"quantizer.vars", "quantizer.codevectors">>,
       <<"project_q", "project_q">>,
       <<"final_proj", "project_hid">>,
       <<"w2v_encoder.proj", "lm_head">>,
       <<"mask_emb", "masked_spec_embed">>,
       <<"pooling_layer.linear", "projector">>,
       <<"pooling_layer.projection", "classifier">> >>

TOP_LEVEL_KEYS ==
    {"lm_head", "quantizer.weight_proj", "quantizer.codevectors", "project_q",
     "project_hid", "projector", "classifier"}

PARAM_MAPPING ==
    << <<"W_a", "linear_1.weight">>,
       <<"W_b", "linear_2.weight">>,
       <<"b_a", "linear_1.bias">>,
       <<"b_b", "linear_2.bias">>,
       <<"ln_W", "norm.weight">>,
       <<"ln_b", "norm.bias">> >>

(* ------------------------------------------------------------------ *)
(* Tensors are their shapes; a destination slot is its attribute path. *)
(* ------------------------------------------------------------------ *)
MaxParams == 2

Shapes == {<<3, 3>>, <<4, 4>>, <<1, 3, 3>>}

\* the shape every destination parameter was constructed with
HfShape == <<3, 3>>

\* value[0]
IndexZero(shape) == Tail(shape)

\* str(tensor.shape)
DimText(d) == CASE d = 1 -> "1" [] d = 3 -> "3" [] d = 4 -> "4"
ShapeText(shape) ==
    IF Len(shape) = 0 THEN "torch.Size([])"
    ELSE "torch.Size(["
             \o JoinWith([i \in 1..Len(shape) |-> DimText(shape[i])], ", ") \o "])"

\* parameter names of fairseq wav2vec2 checkpoints (pre-trained and fine-tuned),
\* and a name two keys of MAPPING occur in ("fc2" and, earlier in the name but
\* later in the table, "adapter_layer")
SourceNames ==
    {"feature_extractor.conv_layers.0.0.weight",
     "feature_extractor.conv_layers.0.2.weight",
     "feature_extractor.conv_layers.1.2.1.bias",
     "encoder.layers.3.fc1.weight",
     "w2v_encoder.w2v_model.encoder.layers.11.fc1.bias",
     "encoder.layers.0.self_attn_layer_norm.weight",
     "encoder.pos_conv.0.weight_g",
     "encoder.pos_conv.0.weight_v",
     "quantizer.weight_proj.bias",
     "quantizer.vars",
     "encoder.layers.2.adapter_layer.W_a",
     "encoder.layers.5.adapter_layer.fc2.weight",
     "layer_norm.weight",
     "target_glu.0.weight",
     "w2v_encoder.proj.weight"}

\* a checkpoint tensor with a leading stacking dimension occurs only under the
\* adapter names, whose first slice is what rename_dict keeps (line 163)
Params ==
  {p \in [name : SourceNames, shape : Shapes] :
     Len(p.shape) = 3 => EndsWith(p.name, "W_a")}

\* state dictionaries: up to MaxParams parameters under distinct names
StateDicts ==
    {d \in UNION {[1..n -> Params] : n \in 1..MaxParams} :
        \A i, j \in DOMAIN d : i # j => d[i].name # d[j].name}

(* ------------------------------------------------------------------ *)
(* load_wav2vec2_layer, lines 176-201                                  *)
(* ------------------------------------------------------------------ *)
\* line 180: key in name or key.split("w2v_model.")[-1] == name.split(".")[0]
KeyMatches(key, name) ==
    \/ IsSubstring(key, name)
    \/ Last(Split(key, "w2v_model.")) = Split(name, ".")[1]

\* the last entry that matches
LastMatch(name) ==
    LET hits == {i \in 1..Len(MAPPING) : KeyMatches(MAPPING[i][1], name)}
    IN  IF hits = {} THEN 0 ELSE CHOOSE i \in hits : \A j \in hits : i >= j

\* the first entry of MAPPING, in table order, that matches; 0 when none does
FirstMatch(name) ==
    LET hits == {i \in 1..Len(MAPPING) : KeyMatches(MAPPING[i][1], name)}
    IN  IF hits = {} THEN 0 ELSE CHOOSE i \in hits : \A j \in hits : i <= j

\* line 179
Prefixed(mapped_key) ==
    IF mapped_key \in TOP_LEVEL_KEYS THEN mapped_key ELSE "wav2vec2." \o mapped_key

\* line 183: name.split(key)[0].split(".")
BeforeKey(name, key) == Split(Split(name, key)[1], ".")

\* lines 185-195
WeightTypeBiasLast(name) ==
    IF IsSubstring("weight_g", name) THEN "weight_g"
    ELSE IF IsSubstring("weight_v", name) THEN "weight_v"
    ELSE IF IsSubstring("weight", name) THEN "weight"
    ELSE IF IsSubstring("bias", name) THEN "bias"
    ELSE "None"

WeightType(name) ==
    IF IsSubstring("weight_g", name) THEN "weight_g"
    ELSE IF IsSubstring("weight_v", name) THEN "weight_v"
    ELSE IF IsSubstring("bias", name) THEN "bias"
    ELSE IF IsSubstring("weight", name) THEN "weight"
    ELSE "None"

\* lines 178-184: the destination key of a matched name, or the IndexError of
\* line 183 when fewer than two segments precede the key
MappedKeyNoIndex(name) ==
    [raises |-> FALSE, key |-> Prefixed(MAPPING[FirstMatch(name)][2])]

MappedKey(name) ==
    LET entry == MAPPING[FirstMatch(name)]
        key == entry[1]
        mapped_key == Prefixed(entry[2])
    IN  IF ~IsSubstring("*", mapped_key)
        THEN [raises |-> FALSE, key |-> mapped_key]
        ELSE IF ~HasSecondToLast(BeforeKey(name, key))
        THEN [raises |-> TRUE, key |-> mapped_key]
        ELSE [raises |-> FALSE,
              key |-> Replace(mapped_key, "*", SecondToLast(BeforeKey(name, key)))]

(* ------------------------------------------------------------------ *)
(* What processing one parameter does: `kind` is "assigned" (slot got  *)
(* the value), "stored" (the dictionary got it), "unused" (name goes   *)
(* to unused_weights), "skipped" (nothing happens) or "raised".        *)
(* ------------------------------------------------------------------ *)
Outcome(kind, slot, shape, err, message) ==
    [kind |-> kind, slot |-> slot, shape |-> shape,
     error |-> [kind |-> err, message |-> message]]

Raised(err, message) == Outcome("raised", "", <<>>, err, message)

\* lines 92-95 and 151-154: does full_name end with a key of PARAM_MAPPING
EndsWithParamKey(full_name) ==
    \E i \in 1..Len(PARAM_MAPPING) : EndsWith(full_name, PARAM_MAPPING[i][1])

\* PARAM_MAPPING[full_name.split(".")[-1]], a KeyError when the segment is no key
InParamMapping(segment) ==
    \E i \in 1..Len(PARAM_MAPPING) : PARAM_MAPPING[i][1] = segment
ParamMappingItem(segment) ==
    PARAM_MAPPING[CHOOSE i \in 1..Len(PARAM_MAPPING) : PARAM_MAPPING[i][1] = segment][2]

\* the test of lines 119, 237, 245, 254 and 262, left out
ShapesDifferNever(hf_shape, shape) == FALSE

\* lines 119, 237, 245, 254, 262
ShapesDiffer(hf_shape, shape) == hf_shape # shape

\* lines 120-123
ShapeMessage(key, weight_type, hf_shape, shape, full_name) ==
    "Shape of hf " \o (IF weight_type # "None" THEN key \o "." \o weight_type ELSE "")
        \o " is " \o ShapeText(hf_shape) \o ", but should be " \o ShapeText(shape)
        \o " for " \o full_name

\* lines 125-144: the attribute of hf_pointer that receives the value
Slot(key, weight_type, hf_param_name, has_hook) ==
    CASE weight_type = "weight" -> key \o ".weight"
      [] weight_type = "weight_g" ->
             IF has_hook THEN key \o ".weight_g"
             ELSE key \o ".parametrizations.weight.original0"
      [] weight_type = "weight_v" ->
             IF has_hook THEN key \o ".weight_v"
             ELSE key \o ".parametrizations.weight.original1"
      [] weight_type = "bias" -> key \o ".bias"
      [] weight_type = "param" -> key \o "." \o hf_param_name
      [] OTHER -> key

\* lines 108-115: the value compared and assigned
Reduced(weight_type, shape) ==
    IF weight_type = "param" THEN IndexZero(shape) ELSE shape

\* set_recursively, lines 87-146. `present`: the destination has the attributes
\* the key names; `has_hook`: hasattr(hf_pointer, "weight_g") / "weight_v".
set_recursively(key, shape, full_name, weight_type, present, has_hook) ==
    LET segment == Last(Split(full_name, "."))
        wtype == IF EndsWithParamKey(full_name) THEN "param" ELSE weight_type
        value == Reduced(wtype, shape)
    IN  IF ~present
        THEN Raised("AttributeError", key)
        ELSE IF EndsWithParamKey(full_name) /\ ~InParamMapping(segment)
        THEN Raised("KeyError", segment)
        ELSE IF ShapesDiffer(HfShape, value)
        THEN Raised("ValueError", ShapeMessage(key, wtype, HfShape, value, full_name))
        ELSE Outcome("assigned",
                     Slot(key, wtype,
                          IF wtype = "param" THEN ParamMappingItem(segment) ELSE "",
                          has_hook),
                     value, "none", "")

\* rename_dict, lines 149-163
rename_dict(key, shape, full_name, weight_type) ==
    LET segment == Last(Split(full_name, "."))
        wtype == IF EndsWithParamKey(full_name) THEN "param" ELSE weight_type
        full_key ==
            IF wtype = "None" THEN key
            ELSE IF wtype = "param" THEN Join(<<key, ParamMappingItem(segment)>>)
            ELSE Join(<<key, wtype>>)
    IN  IF EndsWithParamKey(full_name) /\ ~InParamMapping(segment)
        THEN Raised("KeyError", segment)
        ELSE Outcome("stored", full_key,
                     IF IsSubstring("lm_head", full_key) THEN shape ELSE IndexZero(shape),
                     "none", "")

\* load_wav2vec2_layer, lines 176-201; `target` is "model" or "dict"
load_wav2vec2_layer(name, shape, target, present, has_hook) ==
    IF FirstMatch(name) = 0
    THEN Outcome("unused", "", <<>>, "none", "")
    ELSE LET mapped == MappedKey(name)
         IN  IF mapped.raises
             THEN Raised("IndexError", name)
             ELSE IF target = "dict"
             THEN rename_dict(mapped.key, shape, name, WeightType(name))
             ELSE set_recursively(mapped.key, shape, name, WeightType(name),
                                  present, has_hook)

(* ------------------------------------------------------------------ *)
(* load_conv_layer, lines 229-270                                      *)
(* ------------------------------------------------------------------ *)
\* lines 230-231
ConvItems(full_name) == Split(Last(Split(full_name, "conv_layers.")), ".")

\* line 252
QualifiesSwapped(type_id, layer_id, use_group_norm) ==
    \/ type_id = 2 /\ use_group_norm
    \/ type_id = 2 /\ layer_id = 0 /\ ~use_group_norm

Qualifies(type_id, layer_id, use_group_norm) ==
    \/ type_id = 2 /\ ~use_group_norm
    \/ type_id = 2 /\ layer_id = 0 /\ use_group_norm

\* lines 239-240 and the like
ConvMessage(full_name, shape, hf_shape) ==
    full_name \o " has size " \o ShapeText(shape) \o ", but " \o ShapeText(hf_shape)
        \o " was found."

\* the destination attribute, under the model's feature extractor
ConvSlot(layer, module, attr) ==
    "wav2vec2.feature_extractor.conv_layers." \o layer \o "." \o module \o "." \o attr

\* one of the four copies of lines 236-268
ConvCopy(full_name, shape, layer, module, present) ==
    LET name == Last(Split(full_name, "conv_layers."))
        attr == IF IsSubstring("bias", name) THEN "bias" ELSE "weight"
    IN  IF ~IsSubstring("bias", name) /\ ~IsSubstring("weight", name)
        THEN Outcome("skipped", "", <<>>, "none", "")
        ELSE IF ~present
        THEN Raised("IndexError", ConvSlot(layer, module, attr))
        ELSE IF ShapesDiffer(HfShape, shape)
        THEN Raised("ValueError", ConvMessage(full_name, shape, HfShape))
        ELSE Outcome("assigned", ConvSlot(layer, module, attr), shape, "none", "")

load_conv_layer(full_name, shape, use_group_norm, present) ==
    LET items == ConvItems(full_name)
    IN  IF ~IsInt(items[1])
        THEN Raised("ValueError", "invalid literal for int()")
        ELSE IF Len(items) < 2
        THEN Raised("IndexError", "list index out of range")
        ELSE IF ~IsInt(items[2])
        THEN Raised("ValueError", "invalid literal for int()")
        ELSE IF int(items[2]) = 0
        THEN ConvCopy(full_name, shape, items[1], "conv", present)
        ELSE IF Qualifies(int(items[2]), int(items[1]), use_group_norm)
        THEN ConvCopy(full_name, shape, items[1], "layer_norm", present)
        ELSE Outcome("unused", "", <<>>, "none", "")

\* lines 211-224: what the loop body does with one parameter
ProcessParam(p, use_group_norm, present, has_hook) ==
    IF IsSubstring("conv_layers", p.name)
    THEN load_conv_layer(p.name, p.shape, use_group_norm, present)
    ELSE load_wav2vec2_layer(p.name, p.shape, "model", present, has_hook)

\* ProcessParam and the dictionary call, tabulated once over the parameters
\* and the destinations of the model
ProcessParamTable ==
    {<<p, g, present, has_hook, ProcessParam(p, g, present, has_hook)>> :
        p \in Params, g \in BOOLEAN, present \in BOOLEAN, has_hook \in BOOLEAN}
Processed(p, g, present, has_hook) ==
    (CHOOSE t \in ProcessParamTable :
        t[1] = p /\ t[2] = g /\ t[3] = present /\ t[4] = has_hook)[5]

RenameTable ==
    {<<p, load_wav2vec2_layer(p.name, p.shape, "dict", TRUE, TRUE)>> : p \in Params}
Renamed(p) == (CHOOSE t \in RenameTable : t[1] = p)[2]

(* ------------------------------------------------------------------ *)
(* One run of the script, statement by statement.                      *)
(* ------------------------------------------------------------------ *)
\* --dict_path: not given, given empty, or the path of a dictionary file
DictPaths == {"None", "", "data/dict.ltr.txt"}

Raise(kind, message) ==
    /\ cpc' = "raised"
    /\ cerror' = [kind |-> kind, message |-> message]

\* __main__, lines 361-385
Main ==
    /\ cpc = "idle"
    /\ \E not_finetuned, is_seq_class \in BOOLEAN,
          dict_path \in DictPaths, norm \in {"group", "layer"} :
           args' = [is_finetuned |-> ~not_finetuned /\ ~is_seq_class,
                    is_seq_class |-> is_seq_class,
                    dict_path |-> dict_path,
                    feat_extract_norm |-> norm]
    /\ cpc' = "build"
    /\ UNCHANGED <<fairseq_dict, idx, hf_data, hf_dict, unused_weights, warnings,
                   outputs, cerror>>
    /\ UNCHANGED resolverVars

\* lines 298-340; is_dir is os.path.isdir(pytorch_dump_folder_path)
BuildFineTuned(is_dir) ==
    IF args.dict_path \in {"None", ""}
    THEN cpc' = "load" /\ UNCHANGED <<outputs, cerror>>
    ELSE IF ~is_dir
    THEN cpc' = "returned" /\ UNCHANGED <<outputs, cerror>>
    ELSE /\ outputs' = outputs \o <<"vocab.json", "processor">>
         /\ cpc' = "load"
         /\ UNCHANGED cerror

\* lines 280-342
Build ==
    /\ cpc = "build"
    /\ IF args.is_seq_class
       THEN IF args.dict_path = "None"
            THEN Raise("TypeError", "read_txt_into_dict") /\ UNCHANGED outputs
            ELSE IF args.dict_path = ""
            THEN Raise("FileNotFoundError", "read_txt_into_dict") /\ UNCHANGED outputs
            ELSE /\ outputs' = Append(outputs, "feature_extractor")
                 /\ cpc' = "load"
                 /\ UNCHANGED cerror
       ELSE IF args.is_finetuned
       THEN \E is_dir \in BOOLEAN : BuildFineTuned(is_dir)
       ELSE cpc' = "load" /\ UNCHANGED <<outputs, cerror>>
    /\ UNCHANGED <<args, fairseq_dict, idx, hf_data, hf_dict, unused_weights, warnings>>
    /\ UNCHANGED resolverVars

\* lines 344-354 and 205-208
LoadCheckpoint ==
    /\ cpc = "load"
    /\ IF (args.is_finetuned \/ args.is_seq_class) /\ args.dict_path = "None"
       THEN Raise("AttributeError", "dict_path.split") /\ UNCHANGED fairseq_dict
       ELSE \E readable \in BOOLEAN :
                IF readable
                THEN /\ fairseq_dict' \in StateDicts
                     /\ cpc' = "weights"
                     /\ UNCHANGED cerror
                ELSE Raise("IOError", "checkpoint_path") /\ UNCHANGED fairseq_dict
    /\ UNCHANGED <<args, idx, hf_data, hf_dict, unused_weights, warnings, outputs>>
    /\ UNCHANGED resolverVars

\* Apply without lines 224 and 270
ApplyDropUnused(p, o) ==
    /\ hf_data' = IF o.kind = "assigned"
                  THEN Append(hf_data, [slot |-> o.slot, name |-> p.name, shape |-> o.shape])
                  ELSE hf_data
    /\ UNCHANGED unused_weights
    /\ IF o.kind = "raised"
       THEN Raise(o.error.kind, o.error.message)
       ELSE UNCHANGED <<cpc, cerror>>

\* what an outcome does to the destination and to the list
Apply(p, o) ==
    /\ hf_data' = IF o.kind = "assigned"
                  THEN Append(hf_data, [slot |-> o.slot, name |-> p.name, shape |-> o.shape])
                  ELSE hf_data
    /\ unused_weights' = IF o.kind = "unused"
                         THEN Append(unused_weights, p.name)
                         ELSE unused_weights
    /\ IF o.kind = "raised"
       THEN Raise(o.error.kind, o.error.message)
       ELSE UNCHANGED <<cpc, cerror>>

\* one iteration of the loop of lines 210-224
LoadWeight ==
    /\ cpc = "weights"
    /\ idx < Len(fairseq_dict)
    /\ \E present, has_hook \in BOOLEAN :
           Apply(fairseq_dict[idx + 1],
                 Processed(fairseq_dict[idx + 1], args.feat_extract_norm = "group",
                           present, has_hook))
    /\ idx' = idx + 1
    /\ UNCHANGED <<args, fairseq_dict, hf_dict, warnings, outputs>>
    /\ UNCHANGED resolverVars

\* line 226 reached with parameters left over
WarnEarly ==
    /\ cpc = "weights"
    /\ idx >= 1
    /\ warnings' = Append(warnings, unused_weights)
    /\ cpc' = "save"
    /\ UNCHANGED <<args, fairseq_dict, idx, hf_data, hf_dict, unused_weights, outputs,
                   cerror>>
    /\ UNCHANGED resolverVars

\* line 226
Warn ==
    /\ cpc = "weights"
    /\ idx = Len(fairseq_dict)
    /\ warnings' = Append(warnings, unused_weights)
    /\ cpc' = "save"
    /\ UNCHANGED <<args, fairseq_dict, idx, hf_data, hf_dict, unused_weights, outputs,
                   cerror>>
    /\ UNCHANGED resolverVars

\* line 358
SaveModel ==
    /\ cpc = "save"
    /\ outputs' = Append(outputs, "model")
    /\ cpc' = "returned"
    /\ UNCHANGED <<args, fairseq_dict, idx, hf_data, hf_dict, unused_weights, warnings,
                   cerror>>
    /\ UNCHANGED resolverVars

\* load_wav2vec2_layer(name, value, hf_dict=hf_dict), called on its own
LoadLayerIntoDict ==
    /\ cpc \in {"idle", "library"}
    /\ idx < MaxParams
    /\ \E p \in Params :
           LET o == Renamed(p)
           IN  /\ hf_dict' = IF o.kind = "stored"
                             THEN Append(hf_dict, [slot |-> o.slot, name |-> p.name,
                                                   shape |-> o.shape, given |-> p.shape])
                             ELSE hf_dict
               /\ IF o.kind = "raised"
                  THEN Raise(o.error.kind, o.error.message)
                  ELSE cpc' = "library" /\ UNCHANGED cerror
    /\ idx' = idx + 1
    /\ UNCHANGED <<args, fairseq_dict, hf_data, unused_weights, warnings, outputs>>
    /\ UNCHANGED resolverVars

ConvNext ==
    \/ Main
    \/ Build
    \/ LoadCheckpoint
    \/ LoadWeight
    \/ Warn
    \/ SaveModel
    \/ LoadLayerIntoDict

ConvSpec == Init /\ [][ConvNext]_vars

(* ------------------------------------------------------------------ *)
(* Vocabulary of the properties of the conversion.                     *)
(* ------------------------------------------------------------------ *)
\* the parameters the loop has dealt with without raising
Handled ==
    {i \in DOMAIN fairseq_dict : i < idx \/ (i = idx /\ cpc # "raised")}

Copies(name) == {k \in DOMAIN hf_data : hf_data[k].name = name}
Copied(name) == Copies(name) # {}
Listings(name) == {k \in DOMAIN unused_weights : unused_weights[k] = name}
Listed(name) == Listings(name) # {}

UseGroupNorm == args.feat_extract_norm = "group"

\* a parameter of the convolutional feature extractor with type index 2
IsNormalization(name) ==
    /\ IsSubstring("conv_layers", name)
    /\ Len(ConvItems(name)) >= 2
    /\ ConvItems(name)[2] = "2"
NormLayer(name) == ConvItems(name)[1]

\* <<name, layer, slot>> for the normalization parameters among the source names,
\* slot being conv_layers.<layer>.layer_norm.<bias or weight>
NormalizationTable ==
    UNION {IF IsNormalization(n)
           THEN {<<n, NormLayer(n),
                   ConvSlot(NormLayer(n), "layer_norm",
                            IF IsSubstring("bias", n) THEN "bias" ELSE "weight")>>}
           ELSE {} :
              n \in SourceNames}

\* C11 as the specification states it: when group normalization is unused, only
\* layer 0 qualifies, and a normalization parameter of another layer is listed as
\* unused instead of being copied.
C11_AsStated ==
    \A i \in Handled :
        \A e \in NormalizationTable :
            (e[1] = fairseq_dict[i].name /\ ~UseGroupNorm /\ e[2] # "0")
                => (Listed(e[1]) /\ ~Copied(e[1]))

\* C11: a normalization parameter (type index 2) of the convolutional feature
\* extractor is copied into conv_layers.<layer>.layer_norm unless the destination
\* uses group normalization and the layer is not layer 0; in that case, and only
\* then, it is appended to unused_weights instead of being copied.
C11_NormalizationCopy ==
    \A i \in Handled :
        \A e \in NormalizationTable :
            e[1] = fairseq_dict[i].name =>
                IF UseGroupNorm /\ e[2] # "0"
                THEN Listed(e[1]) /\ ~Copied(e[1])
                ELSE /\ ~Listed(e[1])
                     /\ \E k \in Copies(e[1]) : hf_data[k].slot = e[3]

\* a layer-1 normalization parameter was copied without group normalization, and
\* the run went on
C11_Witness ==
    /\ cpc = "returned"
    /\ ~UseGroupNorm
    /\ \E i \in Handled :
           \E e \in NormalizationTable :
               /\ e[1] = fairseq_dict[i].name
               /\ e[2] = "1"
               /\ Copied(e[1])

\* the place of a key in MAPPING
EntryOf(key) == CHOOSE i \in 1..Len(MAPPING) : MAPPING[i][1] = key

\* the names the loop hands to load_wav2vec2_layer whose first matching entry is key
FirstMatchedBy(key) ==
    {n \in SourceNames :
        /\ ~IsSubstring("conv_layers", n)
        /\ IsSubstring(key, n)
        /\ \A j \in 1..(EntryOf(key) - 1) : ~KeyMatches(MAPPING[j][1], n)}

\* the dotted segment of name that stands immediately before key
PrecedingSegment(name, key) ==
    CHOOSE seg \in {Split(name, ".")[k] : k \in 1..Len(Split(name, "."))} :
        IsSubstring("." \o seg \o "." \o key, "." \o name)

\* the suffix a weight or a bias of a linear layer is assigned under
LinearAttr(name) == IF IsSubstring("bias", name) THEN ".bias" ELSE ".weight"

\* name -> the slot C12 expects, for the names first matched by "fc1"
Fc1Expected ==
    {<<n, "wav2vec2.encoder.layers." \o PrecedingSegment(n, "fc1")
              \o ".feed_forward.intermediate_dense" \o LinearAttr(n)>> :
        n \in FirstMatchedBy("fc1")}

\* name -> the layer index, for the names whose first matching entry has a wildcard
WildcardExpected ==
    UNION {{<<n, PrecedingSegment(n, MAPPING[i][1])>> : n \in FirstMatchedBy(MAPPING[i][1])} :
              i \in {j \in 1..Len(MAPPING) : IsSubstring("*", MAPPING[j][2])}}

\* C12: a parameter outside the convolutional layers whose name contains "fc1" and
\* matches no earlier entry of MAPPING is assigned under
\* encoder.layers.<N>.feed_forward.intermediate_dense of the base model (attribute
\* wav2vec2, line 179), N being the dotted segment just before the key; and every
\* wildcard of a matched destination path is replaced by that segment.
C12_Fc1Destination ==
    \A i \in Handled :
        LET name == fairseq_dict[i].name
        IN  /\ \A e \in Fc1Expected :
                   e[1] = name => \E k \in Copies(name) : hf_data[k].slot = e[2]
            /\ \A e \in WildcardExpected :
                   e[1] = name =>
                       \E k \in Copies(name) :
                           /\ ~IsSubstring("*", hf_data[k].slot)
                           /\ IsSubstring("wav2vec2.encoder.layers." \o e[2] \o ".",
                                          hf_data[k].slot)

\* the fc1 bias of layer 11 of a fine-tuned checkpoint reached its slot
C12_Witness ==
    /\ cpc = "returned"
    /\ \E k \in DOMAIN hf_data :
           /\ hf_data[k].name = "w2v_encoder.w2v_model.encoder.layers.11.fc1.bias"
           /\ hf_data[k].slot =
                  "wav2vec2.encoder.layers.11.feed_forward.intermediate_dense.bias"

\* the names no rule matches, as pairs <<name, use_group_norm>>: outside the
\* convolutional layers no key of MAPPING matches; inside, the type index is
\* neither 0 nor a qualifying 2
Unmatched(n, g) ==
    IF IsSubstring("conv_layers", n)
    THEN /\ ConvItems(n)[2] # "0"
         /\ ~(ConvItems(n)[2] = "2" /\ (~g \/ ConvItems(n)[1] = "0"))
    ELSE \A j \in 1..Len(MAPPING) : ~KeyMatches(MAPPING[j][1], n)
UnmatchedTable ==
    UNION {IF Unmatched(n, g) THEN {<<n, g>>} ELSE {} : n \in SourceNames, g \in BOOLEAN}

\* the loop of recursively_load_weights has run to its end
LoopDone == cpc = "save" \/ (cpc = "returned" /\ Len(warnings) > 0)

\* the run was ended by the parameter the loop was at
RaisedInLoop == cpc = "raised" /\ idx \in DOMAIN fairseq_dict

\* C13: once the loop has processed the whole state dictionary, every parameter
\* that was not copied is in unused_weights; a parameter no rule matches is
\* appended to the list whenever it is processed and never ends the run; the list
\* is given to exactly one warning, after the last parameter.
C13_UnusedReported ==
    /\ LoopDone =>
           \A i \in DOMAIN fairseq_dict :
               Copied(fairseq_dict[i].name) \/ Listed(fairseq_dict[i].name)
    /\ \A i \in Handled :
           <<fairseq_dict[i].name, UseGroupNorm>> \in UnmatchedTable
               => Listed(fairseq_dict[i].name)
    /\ RaisedInLoop => <<fairseq_dict[idx].name, UseGroupNorm>> \notin UnmatchedTable
    /\ warnings = IF LoopDone THEN <<unused_weights>> ELSE <<>>
    /\ LoopDone => idx = Len(fairseq_dict)

\* a run that copied one parameter and reported the other, which no rule matches
C13_Witness ==
    /\ cpc = "returned"
    /\ warnings = << <<"target_glu.0.weight">> >>
    /\ Len(fairseq_dict) = 2
    /\ Len(hf_data) = 1

\* <<name, i>>: for the names more than one entry of MAPPING matches, the first
\* of these entries in table order
SeveralMatch(n, i) ==
    /\ ~IsSubstring("conv_layers", n)
    /\ KeyMatches(MAPPING[i][1], n)
    /\ \A j \in 1..(i - 1) : ~KeyMatches(MAPPING[j][1], n)
    /\ \E j \in (i + 1)..Len(MAPPING) : KeyMatches(MAPPING[j][1], n)
FirstOfSeveral ==
    UNION {IF SeveralMatch(n, i) THEN {<<n, i>>} ELSE {} :
              n \in SourceNames, i \in 1..Len(MAPPING)}

\* what follows the wildcard in the destination path of entry i
AfterWildcard(i) == Last(Split(MAPPING[i][2], "*"))

\* C14: every parameter of the state dictionary causes at most one assignment and
\* at most one entry of unused_weights, never both; a parameter several entries of
\* MAPPING match is assigned under the destination of the first of them in table
\* order; and nothing is assigned or listed for a parameter not yet processed.
C14_ConsumedOnce ==
    /\ \A i \in DOMAIN fairseq_dict :
           LET name == fairseq_dict[i].name
           IN  /\ Cardinality(Copies(name)) + Cardinality(Listings(name)) <= 1
               /\ i > idx => ~Copied(name) /\ ~Listed(name)
               /\ \A t \in FirstOfSeveral :
                      t[1] = name =>
                          \A k \in Copies(name) :
                              IsSubstring(AfterWildcard(t[2]), hf_data[k].slot)
    /\ Len(hf_data) + Len(unused_weights) <= idx

\* both parameters were consumed, one of them a name two entries match
C14_Witness ==
    /\ cpc = "returned"
    /\ Len(hf_data) = 2
    /\ \E k \in DOMAIN hf_data :
           /\ hf_data[k].name = "encoder.layers.5.adapter_layer.fc2.weight"
           /\ hf_data[k].slot =
                  "wav2vec2.encoder.layers.adapter_layer.feed_forward.output_dense.weight"

\* the shape the parameter called name has in the state dictionary
SourceShape(name) ==
    fairseq_dict[CHOOSE i \in DOMAIN fairseq_dict : fairseq_dict[i].name = name].shape

\* the value compared with the destination: the source, or its element 0 when
\* the name ends with a key of PARAM_MAPPING (never so for a convolutional layer)
ElementZeroNames ==
    UNION {IF ~IsSubstring("conv_layers", n) /\ EndsWithParamKey(n) THEN {n} ELSE {} :
              n \in SourceNames}
Compared(name, shape) == IF name \in ElementZeroNames THEN IndexZero(shape) ELSE shape

\* <<parameter, message>>: the messages of the shape-mismatch errors that hold
\* the destination's shape, the compared shape of the parameter and its name
ValueErrorMessages ==
    UNION {IF t[5].error.kind = "ValueError" THEN {t[5].error.message} ELSE {} :
              t \in ProcessParamTable}
NamedMessages ==
    UNION {IF /\ IsSubstring(ShapeText(HfShape), m)
              /\ IsSubstring(ShapeText(Compared(p.name, p.shape)), m)
              /\ IsSubstring(p.name, m)
           THEN {<<p, m>>}
           ELSE {} :
              p \in Params, m \in ValueErrorMessages}

\* C15 as the specification states it, on the dictionary path: a value is written
\* under a key only when its shape equals the destination's, a differing shape
\* raising the shape-mismatch error.
C15_AsStated ==
    \A k \in DOMAIN hf_dict : Compared(hf_dict[k].name, hf_dict[k].given) = HfShape

\* C15: load_conv_layer and load_wav2vec2_layer with a destination model assign
\* a value only when its shape (element 0 of the source in the compatibility-layer
\* case) equals the destination's; a differing shape raises a ValueError whose
\* message holds both shapes and the source name, and the slot stays as it was.
\* load_wav2vec2_layer with a destination dictionary compares nothing: it stores
\* the source under the full key whatever its shape, as it is when the key contains
\* "lm_head" and its element 0 otherwise.
C15_ShapeChecked ==
    /\ \A k \in DOMAIN hf_data :
           /\ hf_data[k].shape = HfShape
           /\ hf_data[k].shape = Compared(hf_data[k].name, SourceShape(hf_data[k].name))
    /\ (RaisedInLoop /\ cerror.kind = "ValueError") =>
           LET p == fairseq_dict[idx]
           IN  /\ Compared(p.name, p.shape) # HfShape
               /\ <<p, cerror.message>> \in NamedMessages
               /\ ~Copied(p.name)
    /\ \A i \in Handled :
           Compared(fairseq_dict[i].name, fairseq_dict[i].shape) # HfShape
               => ~Copied(fairseq_dict[i].name)
    /\ \A k \in DOMAIN hf_dict :
           hf_dict[k].shape = IF IsSubstring("lm_head", hf_dict[k].slot)
                              THEN hf_dict[k].given
                              ELSE IndexZero(hf_dict[k].given)

\* a source of shape (4, 4) met a destination of shape (3, 3)
C15_Witness ==
    /\ RaisedInLoop
    /\ fairseq_dict[idx] = [name |-> "encoder.layers.3.fc1.weight", shape |-> <<4, 4>>]
    /\ cerror =
           [kind |-> "ValueError",
            message |->
                "Shape of hf wav2vec2.encoder.layers.3.feed_forward.intermediate_dense.weight"
                    \o " is torch.Size([3, 3]), but should be torch.Size([4, 4])"
                    \o " for encoder.layers.3.fc1.weight"]

Written(file) == \E k \in DOMAIN outputs : outputs[k] = file
Returned == cpc = "returned"

\* C16: a run that returns has saved the model, and a fine-tuned one the
\* vocabulary file and the processor as well. (Violated: the fine-tuned run given
\* a dictionary path returns at line 311, with nothing written, when the output
\* path is no directory.)
C16_AsStated ==
    Returned =>
        /\ Written("model")
        /\ args.is_finetuned => Written("vocab.json") /\ Written("processor")

(* lines 185-195 said by priority: the first of these that occurs in the name *)
Priority == <<"weight_g", "weight_v", "bias", "weight">>
ByPriority(name) ==
    LET hits == {i \in 1..Len(Priority) : IsSubstring(Priority[i], name)}
    IN  IF hits = {} THEN "None" ELSE Priority[CHOOSE i \in hits : \A j \in hits : i <= j]

\* the endings of the slot a weight type is assigned under; none for "None"
Endings(weight_type) ==
    CASE weight_type = "weight_g" -> {".weight_g", ".parametrizations.weight.original0"}
      [] weight_type = "weight_v" -> {".weight_v", ".parametrizations.weight.original1"}
      [] weight_type = "bias" -> {".bias"}
      [] weight_type = "weight" -> {".weight"}
      [] OTHER -> {}
AllEndings == UNION {Endings(Priority[i]) : i \in 1..Len(Priority)}

\* <<name, endings, typed>> for the names load_wav2vec2_layer sees: the endings
\* C17 allows for the slot, and whether the slot carries a weight type at all
ExpectedEndings ==
    UNION {IF IsSubstring("conv_layers", n) THEN {}
           ELSE IF \E i \in 1..Len(PARAM_MAPPING) : EndsWith(n, PARAM_MAPPING[i][1])
           THEN {<<n, {"." \o ParamMappingItem(Last(Split(n, ".")))}, TRUE>>}
           ELSE {<<n, Endings(ByPriority(n)), ByPriority(n) # "None">>} :
              n \in SourceNames}

SlotFits(slot, e) ==
    IF e[3]
    THEN \E ending \in e[2] : EndsWith(slot, ending)
    ELSE \A ending \in AllEndings : ~EndsWith(slot, ending)

\* C17: a matched parameter is assigned under the weight type that the first of
\* weight_g, weight_v, bias, weight occurring in its name gives (under the mapped
\* key itself when none occurs); when the name ends with a key of PARAM_MAPPING it
\* is instead assigned under the attribute path PARAM_MAPPING gives for the last
\* dotted segment of the name. The same holds for the keys of the dictionary.
C17_WeightType ==
    \A e \in ExpectedEndings :
        /\ \A k \in DOMAIN hf_data : hf_data[k].name = e[1] => SlotFits(hf_data[k].slot, e)
        /\ \A k \in DOMAIN hf_dict : hf_dict[k].name = e[1] => SlotFits(hf_dict[k].slot, e)

\* a name holding both "weight" and "bias" went to the bias, and a name ending
\* with W_a to linear_1.weight of the adapter layer
C17_Witness ==
    /\ Returned
    /\ \E k \in DOMAIN hf_data :
           /\ hf_data[k].name = "quantizer.weight_proj.bias"
           /\ hf_data[k].slot = "quantizer.weight_proj.bias"
    /\ \E k \in DOMAIN hf_data :
           /\ hf_data[k].name = "encoder.layers.2.adapter_layer.W_a"
           /\ hf_data[k].slot = "wav2vec2.encoder.layers.2.adapter_layer.linear_1.weight"

\* the checkpoint has been read or is about to be: lines 344 and after
PastBuild == cpc \in {"load", "weights", "save"} \/ RaisedInLoop \/ Written("model")

\* C19: the model is written last and once, by a run in which the loop processed
\* every parameter of the checkpoint without raising; from line 344 on nothing
\* but the model is written, so feature extractor, vocabulary file and processor
\* are on disk before the checkpoint is loaded; and a run that raised, by a shape
\* mismatch or otherwise, has not written the model.
C19_ModelSavedLast ==
    /\ [](/\ Written("model") =>
                 /\ Returned
                 /\ cerror = NoRaise
                 /\ idx = Len(fairseq_dict)
                 /\ \A i \in DOMAIN fairseq_dict :
                        Copied(fairseq_dict[i].name) \/ Listed(fairseq_dict[i].name)
                 /\ outputs[Len(outputs)] = "model"
                 /\ \A k \in 1..(Len(outputs) - 1) : outputs[k] # "model"
          /\ cpc = "raised" => ~Written("model"))
    /\ [][/\ PastBuild => outputs' \in {outputs, Append(outputs, "model")}
          /\ outputs' # outputs /\ outputs'[Len(outputs')] = "model" => cpc = "save"]_vars

\* a shape mismatch ended a fine-tuned run after the vocabulary file and the
\* processor were written: no model
C19_Witness ==
    /\ RaisedInLoop
    /\ cerror.kind = "ValueError"
    /\ outputs = <<"vocab.json", "processor">>
    /\ idx = 2

====
